---- MODULE Spec2Model ----
(***************************************************************************)
(* The browser-side controller of the video download tool                  *)
(* (VideoDownloadApp, src/frontend/js/app.js) together with the backend    *)
(* client and the button loading state it uses (VideoAPI and               *)
(* AnimationManager, src/unnamed/part_000).                                *)
(*                                                                         *)
(* JavaScript values are represented as follows.                           *)
(*   - a string is a TLA+ string;                                          *)
(*   - a value that may be null/undefined is None (<<>>) or Some(v);       *)
(*   - a JSON object is a record, JSON null is the record null;            *)
(*   - an Error is a record [name, message].                               *)
(* One action is one task of the event loop: an event handler up to its    *)
(* first await on the network, or the continuation that runs when a        *)
(* fetch()/json() promise settles.                                         *)
(***************************************************************************)
EXTENDS Integers, Sequences, FiniteSets, TLC

VARIABLES
    app,        \* the VideoDownloadApp object: its fields and the DOM elements it owns
    net,        \* the makeRequest calls that have not settled yet
    issued,     \* number of fetch() calls made so far; the next request gets id issued + 1
    latestPreview,  \* history: while a preview call is in flight, the id of the one
                    \* issued last; 0 otherwise
    previewedUrl,   \* history: the URL of the preview request whose answer is the
                    \* stored VideoPreview, None while none is stored
    untouched,  \* history: the user has done nothing since the page was loaded or reset
    evaluated   \* the call of a helper of window.videoAPI evaluated last

vars == <<app, net, issued, latestPreview, previewedUrl, untouched, evaluated>>

-----------------------------------------------------------------------------
(* Bounds of the model *)

\* fetch() calls per run, the health check of init() included
MaxRequests == 3

-----------------------------------------------------------------------------
(* JavaScript values *)

None == <<>>
Some(v) == <<v>>

null == [type |-> "null"]

\* ToString of a value written into a DOM attribute or into a template literal
DOMString(opt) == IF opt = None THEN "undefined" ELSE opt[1]

\* x || fallback for an optional string: undefined and "" are falsy
OrElse(opt, fallback) == IF opt = None \/ opt = Some("") THEN fallback ELSE opt[1]

\* a value of any type, as an argument of a helper: typeof, and the value where it counts
String(s) == [type |-> "string", value |-> s]
Number(n) == [type |-> "number", value |-> n]
undefined == [type |-> "undefined"]

\* !value
falsy(value) ==
    \/ value.type \in {"undefined", "null"}
    \/ value.type = "string" /\ value.value = ""
    \/ value.type = "number" /\ value.value = 0

Error(name, message) == [name |-> name, message |-> message]

Return(value) == [kind |-> "return", value |-> value]
Throw(error) == [kind |-> "throw", error |-> error]

-----------------------------------------------------------------------------
(* Strings *)

CharAt(s, i) == SubSeq(s, i, i)

WhiteSpace == {" ", "\t", "\n"}

RECURSIVE trimStart(_)
trimStart(s) ==
    IF Len(s) > 0 /\ CharAt(s, 1) \in WhiteSpace
    THEN trimStart(SubSeq(s, 2, Len(s)))
    ELSE s

RECURSIVE trimEnd(_)
trimEnd(s) ==
    IF Len(s) > 0 /\ CharAt(s, Len(s)) \in WhiteSpace
    THEN trimEnd(SubSeq(s, 1, Len(s) - 1))
    ELSE s

\* String.prototype.trim
trim(s) == trimEnd(trimStart(s))

\* String.prototype.includes
includes(s, part) ==
    \E i \in 1..(Len(s) - Len(part) + 1) : SubSeq(s, i, i + Len(part) - 1) = part

startsWith(s, prefix) ==
    Len(s) >= Len(prefix) /\ SubSeq(s, 1, Len(prefix)) = prefix

\* the characters of the class [\w-]
WordOrDash ==
    { "a", "b", "c", "d", "e", "f", "g", "h", "i", "j", "k", "l", "m",
      "n", "o", "p", "q", "r", "s", "t", "u", "v", "w", "x", "y", "z",
      "A", "B", "C", "D", "E", "F", "G", "H", "I", "J", "K", "L", "M",
      "N", "O", "P", "Q", "R", "S", "T", "U", "V", "W", "X", "Y", "Z",
      "0", "1", "2", "3", "4", "5", "6", "7", "8", "9", "_", "-" }

\* /^<prefix>[\w-]+/.test(s): the literal prefix, then at least one id character
testPrefixThenId(s, prefix) ==
    /\ startsWith(s, prefix)
    /\ Len(s) > Len(prefix)
    /\ CharAt(s, Len(prefix) + 1) \in WordOrDash

Schemes == {"http://", "https://"}
OptionalWww == {"", "www."}

-----------------------------------------------------------------------------
(* VideoAPI: the pure helpers *)

baseURL == "https://nb-video-downloader-backend-production.up.railway.app/"

endpoints == [preview |-> "/preview", download |-> "/download", health |-> "/health"]

\* the four patterns of validateYouTubeURL, each as the set of literal prefixes that
\* must be followed by one id character
patterns ==
    << { scheme \o www \o "youtube.com/watch?v=" : scheme \in Schemes, www \in OptionalWww },
       { scheme \o "youtu.be/" : scheme \in Schemes },
       { scheme \o www \o "youtube.com/embed/" : scheme \in Schemes, www \in OptionalWww },
       { scheme \o www \o "youtube.com/v/" : scheme \in Schemes, www \in OptionalWww } >>

\* mutant: the URL is matched as given, blanks included
validateYouTubeURL_NoTrim(url) ==
    IF url = ""
    THEN FALSE
    ELSE \E i \in 1..Len(patterns) :
            \E prefix \in patterns[i] : testPrefixThenId(url, prefix)

\* validateYouTubeURL(url) for a string
validateYouTubeURL(url) ==
    IF url = ""
    THEN FALSE
    ELSE LET trimmedUrl == trim(url)
         IN  \E i \in 1..Len(patterns) :
                \E prefix \in patterns[i] : testPrefixThenId(trimmedUrl, prefix)

\* validateYouTubeURL(url) for an argument of any type
validateYouTubeURLValue(url) ==
    IF falsy(url) \/ url.type # "string"
    THEN FALSE
    ELSE validateYouTubeURL(url.value)

\* the characters of s from position from up to the first stop character, or the end
RECURSIVE runUntil(_, _, _)
runUntil(s, from, stop) ==
    IF from > Len(s) \/ CharAt(s, from) = stop
    THEN ""
    ELSE CharAt(s, from) \o runUntil(s, from + 1, stop)

\* s.match(/<literal>([^<stop>]+)/), the literal one of literals: the group of the
\* leftmost match, None when there is no match
matchCapture(s, literals, stop) ==
    LET matchesAt(i, literal) ==
            /\ i + Len(literal) <= Len(s)
            /\ SubSeq(s, i, i + Len(literal) - 1) = literal
            /\ CharAt(s, i + Len(literal)) # stop
        starts == { i \in 1..Len(s) : \E literal \in literals : matchesAt(i, literal) }
    IN  IF starts = {}
        THEN None
        ELSE LET first == CHOOSE i \in starts : \A j \in starts : i <= j
                 literal == CHOOSE l \in literals : matchesAt(first, l)
             IN  Some(runUntil(s, first + Len(literal), stop))

\* extractVideoID(url): Some(id), or None for null
extractVideoID(url) ==
    IF ~validateYouTubeURLValue(url)
    THEN None
    ELSE LET trimmedUrl == trim(url.value)
             watchMatch == matchCapture(trimmedUrl, {"?v=", "&v="}, "&")
             shortMatch == matchCapture(trimmedUrl, {"youtu.be/"}, "?")
             embedMatch == matchCapture(trimmedUrl, {"embed/"}, "?")
             vMatch == matchCapture(trimmedUrl, {"/v/"}, "?")
         IN  IF watchMatch # None THEN watchMatch
             ELSE IF shortMatch # None THEN shortMatch
             ELSE IF embedMatch # None THEN embedMatch
             ELSE IF vMatch # None THEN vMatch
             ELSE None

\* (num / divisor).toFixed(1), divisor a power of ten: the quotient rounded to the
\* nearest tenth, the upper one when it lies halfway between two
toFixed1(num, divisor) ==
    LET tenth == divisor \div 10
        below == num \div tenth
        tenths == IF 2 * (num % tenth) >= tenth THEN below + 1 ELSE below
    IN  ToString(tenths \div 10) \o "." \o ToString(tenths % 10)

\* mutant: the thresholds themselves are not scaled
formatNumber_ThresholdExclusive(num) ==
    IF num = None
    THEN Throw(Error("TypeError", "Cannot read properties of undefined (reading 'toString')"))
    ELSE LET n == num[1]
         IN  IF n > 1000000000 THEN Return(toFixed1(n, 1000000000) \o "B")
             ELSE IF n > 1000000 THEN Return(toFixed1(n, 1000000) \o "M")
             ELSE IF n > 1000 THEN Return(toFixed1(n, 1000) \o "K")
             ELSE Return(ToString(n))

\* formatNumber(num); num.toString() throws when the count is missing from the response
formatNumber(num) ==
    IF num = None
    THEN Throw(Error("TypeError", "Cannot read properties of undefined (reading 'toString')"))
    ELSE LET n == num[1]
         IN  IF n >= 1000000000 THEN Return(toFixed1(n, 1000000000) \o "B")
             ELSE IF n >= 1000000 THEN Return(toFixed1(n, 1000000) \o "M")
             ELSE IF n >= 1000 THEN Return(toFixed1(n, 1000) \o "K")
             ELSE Return(ToString(n))

handleError(error) ==
    LET message == IF error.message = "" THEN "An unknown error occurred" ELSE error.message
    IN  IF includes(message, "timeout")
        THEN "Request timed out. Please check your connection and try again."
        ELSE IF includes(message, "fetch")
        THEN "Unable to connect to the server. Please check your internet connection."
        ELSE IF includes(message, "Invalid YouTube URL")
        THEN "Please enter a valid YouTube video URL."
        ELSE IF includes(message, "Video unavailable")
        THEN "This video is not available for download. It may be private, deleted, or restricted."
        ELSE IF includes(message, "Age restricted")
        THEN "This video is age-restricted and cannot be downloaded."
        ELSE IF includes(message, "Copyright")
        THEN "This video is protected by copyright and cannot be downloaded."
        ELSE IF includes(message, "HTTP 429")
        THEN "Too many requests. Please wait a moment before trying again."
        ELSE IF includes(message, "HTTP 500")
        THEN "Server error. Please try again later."
        ELSE IF includes(message, "HTTP 400")
        THEN "Invalid request. Please check the video URL and try again."
        ELSE "Error: " \o message

\* the characters encodeURIComponent leaves alone, besides letters, digits, "_" and "-"
UnreservedMarks == {".", "!", "~", "*", "'", "(", ")"}

\* the escape of an ASCII character outside the unreserved set
PercentEscape(c) ==
    CASE c = " " -> "%20"
      [] c = "/" -> "%2F"
      [] c = "?" -> "%3F"
      [] c = "&" -> "%26"
      [] c = "#" -> "%23"
      [] c = "%" -> "%25"
      [] c = "=" -> "%3D"
      [] c = ":" -> "%3A"
      [] c = "+" -> "%2B"

RECURSIVE encodeURIComponent(_)
encodeURIComponent(s) ==
    IF s = ""
    THEN ""
    ELSE LET c == CharAt(s, 1)
             rest == encodeURIComponent(SubSeq(s, 2, Len(s)))
         IN  IF c \in WordOrDash \cup UnreservedMarks
             THEN c \o rest
             ELSE PercentEscape(c) \o rest

getDownloadURL(filename) ==
    baseURL \o "/downloads/" \o encodeURIComponent(DOMString(filename))

-----------------------------------------------------------------------------
(* AnimationManager: the loading state of a button *)

SpinnerHTML == "<div class=\"button-spinner\"><div class=\"spinner-ring\"></div></div>"

\* mutant: the label of the button is not kept
addLoadingState_LabelNotKept(button, originalText) ==
    [button EXCEPT !.disabled = TRUE, !.innerHTML = SpinnerHTML]

\* mutant: the button is not disabled
addLoadingState_NotDisabled(button, originalText) ==
    [button EXCEPT !.originalText = Some(originalText),
                   !.innerHTML = SpinnerHTML]

addLoadingState(button, originalText) ==
    [button EXCEPT !.disabled = TRUE,
                   !.originalText = Some(originalText),
                   !.innerHTML = SpinnerHTML]

removeLoadingState(button) ==
    [button EXCEPT !.disabled = FALSE,
                   !.innerHTML = OrElse(button.originalText, "Button"),
                   !.originalText = None]

-----------------------------------------------------------------------------
(* VideoDownloadApp: the sections *)

hideAllSections(a) ==
    [a EXCEPT !.elements.loadingSection.hidden = TRUE,
              !.elements.previewSection.hidden = TRUE,
              !.elements.errorSection.hidden = TRUE,
              !.elements.successSection.hidden = TRUE,
              !.elements.downloadSection.hidden = TRUE]

showLoading(a) ==
    [hideAllSections(a) EXCEPT !.elements.loadingSection.hidden = FALSE]

\* mutant: the other sections are left as they are
showPreview_NoHide(a) ==
    [a EXCEPT !.elements.previewSection.hidden = FALSE]

showPreview(a) ==
    [hideAllSections(a) EXCEPT !.elements.previewSection.hidden = FALSE]

showDownloadSection(a) ==
    [a EXCEPT !.elements.downloadSection.hidden = FALSE]

showError(a, message) ==
    [hideAllSections(a) EXCEPT !.elements.errorMessage.textContent = message,
                               !.elements.errorSection.hidden = FALSE]

\* mutant: the other sections are left as they are
showSuccess_NoHide(a, response) ==
    [a EXCEPT
        !.elements.downloadLink.href = getDownloadURL(response.filename),
        !.elements.downloadLink.download = DOMString(response.filename),
        !.elements.successSection.hidden = FALSE]

showSuccess(a, response) ==
    [hideAllSections(a) EXCEPT
        !.elements.downloadLink.href = getDownloadURL(response.filename),
        !.elements.downloadLink.download = DOMString(response.filename),
        !.elements.successSection.hidden = FALSE]

showUrlSection(a) == hideAllSections(a)

hideError(a) == [a EXCEPT !.elements.errorSection.hidden = TRUE]

\* mutant: the selection is left as it was
reset_SelectionKept(a) ==
    hideAllSections([a EXCEPT !.currentVideoInfo = null,
                              !.elements.videoUrl.value = ""])

reset(a) ==
    hideAllSections([a EXCEPT !.currentVideoInfo = null,
                              !.selectedQuality = None,
                              !.selectedFormatId = None,
                              !.elements.videoUrl.value = ""])

-----------------------------------------------------------------------------
(* VideoDownloadApp: quality selection and the preview *)

\* a step of a handler: the app after it, and the error it threw, if any
Completed(a) == [app |-> a, error |-> None]
Threw(a, error) == [app |-> a, error |-> Some(error)]

\* the button created for one format of the response
qualityButton(format) ==
    [quality |-> format.quality,
     formatId |-> format.format_id,
     filesize |-> format.filesize_formatted,
     selected |-> FALSE]

\* querySelector('.quality-btn.selected'): the first selected button in document order
selectedButtonIndex(children) ==
    IF \E i \in DOMAIN children : children[i].selected
    THEN Some(CHOOSE i \in DOMAIN children :
                /\ children[i].selected
                /\ \A j \in DOMAIN children : children[j].selected => i <= j)
    ELSE None

updateDownloadSection(a) ==
    LET children == a.elements.qualityButtons.children
        selectedButton == selectedButtonIndex(children)
    IN  IF selectedButton # None
        THEN [a EXCEPT
                !.elements.selectedQualitySpan.textContent =
                    "Quality: " \o children[selectedButton[1]].quality,
                !.elements.fileSizeSpan.textContent =
                    "Size: " \o children[selectedButton[1]].filesize]
        ELSE a

\* mutant: the format id of the button is not taken over
handleQualitySelection_QualityOnly(a, index) ==
    LET children == a.elements.qualityButtons.children
        marked == [j \in DOMAIN children |-> [children[j] EXCEPT !.selected = (j = index)]]
        a1 == [a EXCEPT !.elements.qualityButtons.children = marked,
                        !.selectedQuality = Some(children[index].quality)]
    IN  showDownloadSection(updateDownloadSection(a1))

\* handleQualitySelection(button), the button given by its position in qualityButtons
handleQualitySelection(a, index) ==
    LET children == a.elements.qualityButtons.children
        marked == [j \in DOMAIN children |-> [children[j] EXCEPT !.selected = (j = index)]]
        a1 == [a EXCEPT !.elements.qualityButtons.children = marked,
                        !.selectedQuality = Some(children[index].quality),
                        !.selectedFormatId = Some(children[index].formatId)]
    IN  showDownloadSection(updateDownloadSection(a1))

\* mutant: the last button is selected, not the first
generateQualityButtons_SelectLast(a, formats) ==
    LET cleared == [a EXCEPT !.elements.qualityButtons.children = <<>>]
    IN  IF formats = None
        THEN Threw(cleared,
                   Error("TypeError", "Cannot read properties of undefined (reading 'forEach')"))
        ELSE LET children == [i \in DOMAIN formats[1] |-> qualityButton(formats[1][i])]
                 filled == [cleared EXCEPT !.elements.qualityButtons.children = children]
             IN  IF Len(children) > 0
                 THEN Completed(handleQualitySelection(filled, Len(children)))
                 ELSE Completed(filled)

generateQualityButtons(a, formats) ==
    LET cleared == [a EXCEPT !.elements.qualityButtons.children = <<>>]
    IN  IF formats = None
        THEN Threw(cleared,
                   Error("TypeError", "Cannot read properties of undefined (reading 'forEach')"))
        ELSE LET children == [i \in DOMAIN formats[1] |-> qualityButton(formats[1][i])]
                 filled == [cleared EXCEPT !.elements.qualityButtons.children = children]
             IN  IF Len(children) > 0
                 THEN Completed(handleQualitySelection(filled, 1))
                 ELSE Completed(filled)

\* displayVideoPreview(videoInfo); of the video details it writes, the title is kept
displayVideoPreview(a, videoInfo) ==
    IF videoInfo = null
    THEN Threw(a, Error("TypeError", "Cannot read properties of null (reading 'thumbnail')"))
    ELSE LET a1 == [a EXCEPT !.elements.videoTitle.textContent = videoInfo.title]
             views == formatNumber(videoInfo.view_count)
             likes == formatNumber(videoInfo.like_count)
         IN  IF views.kind = "throw"
             THEN Threw(a1, views.error)
             ELSE IF likes.kind = "throw"
             THEN Threw(a1, likes.error)
             ELSE generateQualityButtons(a1, videoInfo.formats)

\* getVideoPreview from the point where the await on videoAPI.getVideoPreview settles
getVideoPreviewSettled(a, outcome) ==
    IF outcome.kind = "throw"
    THEN showError(a, handleError(outcome.error))
    ELSE LET stored == [a EXCEPT !.currentVideoInfo = outcome.value]
             shown == displayVideoPreview(stored, outcome.value)
         IN  IF shown.error # None
             THEN showError(shown.app, handleError(shown.error[1]))
             ELSE showPreview(shown.app)

\* the try block of downloadVideo from the point where the await settles
downloadVideoTry(a, outcome) ==
    IF outcome.kind = "throw"
    THEN Threw(a, outcome.error)
    ELSE IF outcome.value = null
    THEN Threw(a, Error("TypeError", "Cannot read properties of null (reading 'success')"))
    ELSE IF outcome.value.success
    THEN Completed(showSuccess(a, outcome.value))
    ELSE Completed(showError(a, OrElse(outcome.value.message, "Download failed")))

\* downloadVideo from the point where the await settles: try, catch, finally
downloadVideoSettled(a, outcome) ==
    LET tried == downloadVideoTry(a, outcome)
        caught == IF tried.error # None
                  THEN showError(tried.app, handleError(tried.error[1]))
                  ELSE tried.app
    IN  [caught EXCEPT !.elements.downloadBtn = removeLoadingState(@)]

-----------------------------------------------------------------------------
(* VideoAPI: the requests *)

videoAPI_getVideoPreview(url) ==
    [endpoint |-> endpoints.preview, method |-> "POST", body |-> [url |-> trim(url)]]

videoAPI_downloadVideo(url, quality, formatId) ==
    [endpoint |-> endpoints.download, method |-> "POST",
     body |-> [url |-> trim(url), quality |-> quality, format_id |-> formatId]]

videoAPI_checkHealth ==
    [endpoint |-> endpoints.health, method |-> "GET", body |-> null]

\* makeRequest up to its await on fetch(): the timeout timer is armed, fetch() is called
makeRequest(id, call) ==
    [id |-> id, endpoint |-> call.endpoint, method |-> call.method, body |-> call.body,
     phase |-> "fetch", timer |-> TRUE, response |-> null]

\* the catch block of makeRequest
makeRequestCatch(error) ==
    IF error.name = "AbortError"
    THEN Throw(Error("Error", "Request timeout - please try again"))
    ELSE Throw(error)

\* the error makeRequest throws for a response that is not ok
httpError(response, errorData) ==
    Error("Error",
          OrElse(errorData.detail,
                 "HTTP " \o ToString(response.status) \o ": " \o response.statusText))

-----------------------------------------------------------------------------
(* VideoDownloadApp: the event handlers, up to their await on the network *)

\* what a handler leaves behind: the app, and the call it made on videoAPI, if any
Handled(a, call) == [app |-> a, call |-> call]

\* getVideoPreview(url) up to the await
getVideoPreview(a, url) ==
    Handled(showLoading(a), Some(videoAPI_getVideoPreview(url)))

\* mutant: the URL is submitted without the local validation
handlePreviewClick_NoValidation(a) ==
    getVideoPreview(a, trim(a.elements.videoUrl.value))

handlePreviewClick(a) ==
    LET url == trim(a.elements.videoUrl.value)
    IN  IF url = ""
        THEN Handled(showError(a, "Please enter a YouTube video URL"), None)
        ELSE IF ~validateYouTubeURL(url)
        THEN Handled(showError(a, "Please enter a valid YouTube video URL"), None)
        ELSE getVideoPreview(a, url)

\* downloadVideo() up to the await
downloadVideo(a) ==
    LET originalText == a.elements.downloadBtn.innerHTML
        busy == [a EXCEPT !.elements.downloadBtn = addLoadingState(@, originalText)]
    IN  Handled(busy,
                Some(videoAPI_downloadVideo(a.elements.videoUrl.value,
                                            a.selectedQuality,
                                            a.selectedFormatId)))

\* mutant: the download is started without looking at the selection
handleDownloadClick_NoCheck(a) == downloadVideo(a)

handleDownloadClick(a) ==
    IF a.currentVideoInfo = null \/ a.selectedQuality = None \/ a.selectedQuality = Some("")
    THEN Handled(showError(a, "Please select a video quality first"), None)
    ELSE downloadVideo(a)

\* mutant: retry goes back to the loading region, as if the call were made again
handleRetryClick_BackToLoading(a) == showLoading(hideError(a))

handleRetryClick(a) == showUrlSection(hideError(a))

\* mutant: a failed health check is shown like any other failure
settled_HealthFailureShown(a, request, outcome) ==
    CASE request.endpoint = endpoints.preview -> getVideoPreviewSettled(a, outcome)
      [] request.endpoint = endpoints.download -> downloadVideoSettled(a, outcome)
      [] request.endpoint = endpoints.health ->
            IF outcome.kind = "throw" THEN showError(a, handleError(outcome.error)) ELSE a

\* the continuation of the handler that awaits the request, run when makeRequest settles
settled(a, request, outcome) ==
    CASE request.endpoint = endpoints.preview -> getVideoPreviewSettled(a, outcome)
      [] request.endpoint = endpoints.download -> downloadVideoSettled(a, outcome)
      [] request.endpoint = endpoints.health -> a

-----------------------------------------------------------------------------
(* The page and the environment: what the user types, what the backend answers *)

\* values the user gives the URL field (the empty field is the initial value)
UrlInputs == { " https://youtu.be/a1 ", "https://vimeo.com/123" }

Format(quality, formatId, filesize) ==
    [quality |-> quality, format_id |-> formatId, filesize_formatted |-> filesize]

\* format lists of a preview response: the empty one and a list of two formats
FormatLists ==
    { <<>>,
      << Format("1080p", "f1", "50MB"), Format("720p", "f2", "30MB") >> }

VideoInfo(title, views, likes, formats) ==
    [type |-> "object", title |-> title, view_count |-> views, like_count |-> likes,
     formats |-> formats]

\* bodies of a 2xx answer of /preview: well-formed ones, and ones the page cannot process
PreviewBodies ==
    { VideoInfo("Video A", Some(1500), Some(999), Some(l)) : l \in FormatLists }
    \cup { null, VideoInfo("Video B", Some(2300000), Some(12), None) }

DownloadResult(success, filename, message) ==
    [type |-> "object", success |-> success, filename |-> filename, message |-> message]

\* bodies of a 2xx answer of /download
DownloadBodies ==
    { DownloadResult(TRUE, Some("my video.mp4"), None),
      DownloadResult(FALSE, None, Some("Video unavailable")),
      DownloadResult(FALSE, None, None) }

HealthBodies == { [type |-> "object", status |-> "healthy"] }

OkBodies(endpoint) ==
    CASE endpoint = endpoints.preview -> PreviewBodies
      [] endpoint = endpoints.download -> DownloadBodies
      [] endpoint = endpoints.health -> HealthBodies

\* bodies of an answer that is not 2xx
ErrorBodies ==
    { [type |-> "object", detail |-> None],
      [type |-> "object", detail |-> Some("Video unavailable")] }

Responses ==
    { [ok |-> TRUE, status |-> 200, statusText |-> "OK"],
      [ok |-> FALSE, status |-> 500, statusText |-> "Internal Server Error"] }

\* the errors of the browser
FetchFailed == Error("TypeError", "Failed to fetch")
Aborted == Error("AbortError", "The user aborted a request.")
JsonSyntaxError == Error("SyntaxError", "Unexpected token '<', \"<!DOCTYPE \"... is not valid JSON")

\* the parts a URL is put together from: blanks, scheme, www., host and path, id, rest
UrlParts ==
    [lead : {"", " "},
     scheme : {"http://", "https://", "HTTPS://", "ftp://"},
     www : {"", "www."},
     hostPath : {"youtube.com/watch?v=", "youtu.be/", "youtube.com/embed/", "youtube.com/v/",
                 "YouTube.com/watch?v=", "vimeo.com/", "youtube.com/playlist?list="},
     id : {"", "abc123", "a-b_C", "dQw4w9WgXcQ"},
     rest : {"", "&t=5", "?t=5", "/x", " "}]

UrlOf(parts) ==
    parts.lead \o parts.scheme \o parts.www \o parts.hostPath \o parts.id \o parts.rest

\* arguments of validateYouTubeURL and extractVideoID: URLs with their parts, and
\* values that are no URL at all
UrlArguments ==
    { [parts |-> Some(parts), arg |-> String(UrlOf(parts))] : parts \in UrlParts }
    \cup { [parts |-> None, arg |-> value] :
             value \in {String(""), String("  "), undefined, null, Number(42)} }

\* counts given to formatNumber: around each threshold, and where the tenth rounds up
\* or down (a count halfway between two tenths only where the quotient is exact in
\* binary floating point, as 1.25 is)
Counts ==
    { 0, 7, 999, 1000, 1001, 1049, 1051, 1250, 1500, 1949, 9999, 12345, 999499,
      999949, 999960, 999999, 1000000, 1049999, 2300000, 45678901, 999949999,
      999960000, 999999999, 1000000000, 1250000000, 2000000000 }

\* failures given to handleError, each with what it is: the timeout and the connection
\* failures of makeRequest (the message of the connection failure is the browser's),
\* and answers that are not 2xx, with and without detail of the server
Failures ==
    { [kind |-> "timeout", error |-> makeRequestCatch(Aborted).error] }
    \cup { [kind |-> "connection", error |-> Error("TypeError", message)] :
             message \in {"Failed to fetch", "NetworkError when attempting to fetch resource.",
                          "Load failed"} }
    \cup { [kind |-> "api", error |-> httpError(response, [detail |-> detail])] :
             response \in { [ok |-> FALSE, status |-> 400, statusText |-> "Bad Request"],
                            [ok |-> FALSE, status |-> 404, statusText |-> "Not Found"],
                            [ok |-> FALSE, status |-> 429, statusText |-> "Too Many Requests"],
                            [ok |-> FALSE, status |-> 500, statusText |-> "Internal Server Error"] },
             detail \in { None, Some("Video unavailable"), Some("Age restricted video"),
                          Some("Copyright claim"), Some("Invalid YouTube URL"),
                          Some("Format not found"), Some("Could not fetch video info"),
                          Some("Download timeout exceeded") } }

\* before the first call of a helper
NothingEvaluated == [fn |-> "none"]

\* the label of the download button in the page (any non-empty markup)
DownloadBtnLabel == "Download Video"

\* a region of the page as loaded: the page starts in Idle, every region hidden
InitiallyHidden == [hidden |-> TRUE]

\* the elements the constructor looks up, as the page is loaded
InitialElements ==
    [videoUrl |-> [value |-> ""],
     loadingSection |-> InitiallyHidden,
     previewSection |-> InitiallyHidden,
     errorSection |-> InitiallyHidden,
     successSection |-> InitiallyHidden,
     downloadSection |-> InitiallyHidden,
     qualityButtons |-> [children |-> <<>>],
     downloadBtn |-> [disabled |-> FALSE, innerHTML |-> DownloadBtnLabel,
                      originalText |-> None],
     downloadLink |-> [href |-> "", download |-> ""],
     videoTitle |-> [textContent |-> ""],
     selectedQualitySpan |-> [textContent |-> ""],
     fileSizeSpan |-> [textContent |-> ""],
     errorMessage |-> [textContent |-> ""]]

\* the quality buttons can be clicked while the preview region shows them
qualityButtonsShown(a) == ~a.elements.previewSection.hidden

\* the retry button can be clicked while the error region shows it
retryBtnShown(a) == ~a.elements.errorSection.hidden

\* the download button can be clicked while the download-options region shows it
downloadBtnShown(a) == ~a.elements.downloadSection.hidden

-----------------------------------------------------------------------------
(* The state machine *)

\* the constructor and init(): the fields, the elements, and the health check in flight
Init ==
    /\ app = [currentVideoInfo |-> null,
              selectedQuality |-> None,
              selectedFormatId |-> None,
              elements |-> InitialElements]
    /\ net = { makeRequest(1, videoAPI_checkHealth) }
    /\ issued = 1
    /\ latestPreview = 0
    /\ previewedUrl = None
    /\ untouched = TRUE
    /\ evaluated = NothingEvaluated

\* the call a handler made, if any, goes out as one more fetch()
Send(call) ==
    IF call = None
    THEN UNCHANGED <<net, issued, latestPreview>>
    ELSE /\ issued < MaxRequests
         /\ net' = net \cup { makeRequest(issued + 1, call[1]) }
         /\ issued' = issued + 1
         /\ latestPreview' = IF call[1].endpoint = endpoints.preview
                             THEN issued + 1
                             ELSE latestPreview

\* the user edits the URL field
TypeUrl(url) ==
    /\ url # app.elements.videoUrl.value
    /\ app' = [app EXCEPT !.elements.videoUrl.value = url]
    /\ untouched' = FALSE
    /\ UNCHANGED <<net, issued, latestPreview, previewedUrl, evaluated>>

\* click on the preview button, or Enter in the URL field
HandlePreviewClick ==
    LET handled == handlePreviewClick(app)
    IN  /\ app' = handled.app
        /\ Send(handled.call)
        /\ untouched' = FALSE
        /\ UNCHANGED <<previewedUrl, evaluated>>

\* click on the quality button at position index
HandleQualityClick(index) ==
    /\ qualityButtonsShown(app)
    /\ index \in DOMAIN app.elements.qualityButtons.children
    /\ app' = handleQualitySelection(app, index)
    /\ untouched' = FALSE
    /\ UNCHANGED <<net, issued, latestPreview, previewedUrl, evaluated>>

\* click on the download button; a disabled button dispatches no click
HandleDownloadClick ==
    LET handled == handleDownloadClick(app)
    IN  /\ downloadBtnShown(app)
        /\ ~app.elements.downloadBtn.disabled
        /\ app' = handled.app
        /\ Send(handled.call)
        /\ untouched' = FALSE
        /\ UNCHANGED <<previewedUrl, evaluated>>

\* handleDownloadClick() called on the app object (window.videoDownloadApp) and not
\* through the page: nothing of the page stands in its way
CallHandleDownloadClick ==
    LET handled == handleDownloadClick(app)
    IN  /\ app' = handled.app
        /\ Send(handled.call)
        /\ untouched' = FALSE
        /\ UNCHANGED <<previewedUrl, evaluated>>

HandleRetryClick ==
    /\ retryBtnShown(app)
    /\ app' = handleRetryClick(app)
    /\ untouched' = FALSE
    /\ UNCHANGED <<net, issued, latestPreview, previewedUrl, evaluated>>

\* the Escape key
Reset ==
    /\ app' = reset(app)
    /\ previewedUrl' = None
    /\ untouched' = TRUE
    /\ UNCHANGED <<net, issued, latestPreview, evaluated>>

\* makeRequest settles with outcome: the awaiting handler continues
Settle(request, outcome) ==
    /\ net' = net \ {request}
    /\ app' = settled(app, request, outcome)
    /\ latestPreview' = IF \E other \in net' : other.endpoint = endpoints.preview
                        THEN latestPreview
                        ELSE 0
    /\ previewedUrl' = IF request.endpoint = endpoints.preview /\ outcome.kind = "return"
                       THEN IF outcome.value = null THEN None ELSE Some(request.body.url)
                       ELSE previewedUrl
    /\ UNCHANGED <<issued, untouched, evaluated>>

\* fetch() resolves with the status line and headers; the timeout timer is cleared
FetchResolves(request, response) ==
    /\ request.phase = "fetch"
    /\ net' = (net \ {request})
                \cup { [request EXCEPT !.phase = "json", !.timer = FALSE,
                                       !.response = response] }
    /\ UNCHANGED <<app, issued, latestPreview, previewedUrl, untouched, evaluated>>

\* fetch() rejects: the connection failed
FetchRejects(request) ==
    /\ request.phase = "fetch"
    /\ Settle(request, makeRequestCatch(FetchFailed))

\* the timeout timer fires while fetch() is pending: controller.abort()
TimeoutAborts(request) ==
    /\ request.phase = "fetch"
    /\ request.timer
    /\ Settle(request, makeRequestCatch(Aborted))

\* response.json() resolves with the decoded body
JsonResolves(request, data) ==
    /\ request.phase = "json"
    /\ IF request.response.ok
       THEN /\ data \in OkBodies(request.endpoint)
            /\ Settle(request, Return(data))
       ELSE /\ data \in ErrorBodies
            /\ Settle(request, makeRequestCatch(httpError(request.response, data)))

\* response.json() rejects: the body is no JSON; for an error answer it counts as {}
JsonRejects(request) ==
    /\ request.phase = "json"
    /\ IF request.response.ok
       THEN Settle(request, makeRequestCatch(JsonSyntaxError))
       ELSE Settle(request,
                   makeRequestCatch(httpError(request.response, [detail |-> None])))

Next ==
    \/ \E url \in UrlInputs : TypeUrl(url)
    \/ HandlePreviewClick
    \/ \E index \in DOMAIN app.elements.qualityButtons.children : HandleQualityClick(index)
    \/ HandleDownloadClick
    \/ HandleRetryClick
    \/ Reset
    \/ \E request \in net, response \in Responses : FetchResolves(request, response)
    \/ \E request \in net : FetchRejects(request)
    \/ \E request \in net : TimeoutAborts(request)
    \/ \E request \in net, data \in PreviewBodies \cup DownloadBodies \cup HealthBodies \cup ErrorBodies :
            JsonResolves(request, data)
    \/ \E request \in net : JsonRejects(request)

\* the page driven by its user and the backend
Spec == Init /\ [][Next]_vars

NextDirect ==
    \/ Next
    \/ CallHandleDownloadClick

\* the same, with download also requested by a call of the handler
SpecDirect == Init /\ [][NextDirect]_vars

\* a call of a helper of videoAPI: the page is not touched; the helpers keep no state,
\* so one call is followed by no other
Evaluate(fn, input, result) ==
    /\ evaluated = NothingEvaluated
    /\ evaluated' = [fn |-> fn, input |-> input, result |-> result]
    /\ UNCHANGED <<app, net, issued, latestPreview, previewedUrl, untouched>>

ValidateYouTubeURL(input) ==
    Evaluate("validateYouTubeURL", input, validateYouTubeURLValue(input.arg))

ExtractVideoID(input) ==
    Evaluate("extractVideoID", input, extractVideoID(input.arg))

FormatNumber(num) ==
    Evaluate("formatNumber", num, formatNumber(Some(num)))

HandleError(failure) ==
    Evaluate("handleError", failure, handleError(failure.error))

NextHelpers ==
    \/ \E input \in UrlArguments : ValidateYouTubeURL(input)
    \/ \E input \in UrlArguments : ExtractVideoID(input)
    \/ \E num \in Counts : FormatNumber(num)
    \/ \E failure \in Failures : HandleError(failure)

\* the page, where the timer that makeRequest starts for a request fires in the end,
\* unless it is cleared first; nothing is assumed of the backend or of the user
SpecTimer ==
    /\ Init
    /\ [][Next]_vars
    /\ \A id \in 1..MaxRequests :
          WF_vars(\E request \in net : request.id = id /\ TimeoutAborts(request))

\* one call of a helper of videoAPI, with any argument
SpecHelpers == Init /\ [][NextHelpers]_vars

-----------------------------------------------------------------------------
(* Vocabulary of the properties *)

\* the regions that stand for a state of the page, and the download-options overlay
StateRegions == {"loadingSection", "previewSection", "errorSection", "successSection"}
Regions == StateRegions \cup {"downloadSection"}

Visible(a, region) == ~a.elements[region].hidden

\* of all regions, exactly the given one is visible
OnlyVisible(a, region) == \A r \in Regions : Visible(a, r) <=> (r = region)

IsPreview(request) == request.endpoint = endpoints.preview
IsDownload(request) == request.endpoint = endpoints.download

\* the request is taken out of net in this step: its makeRequest call settles
SettlesNow(request) == request \in net /\ \A other \in net' : other.id # request.id

\* a preview body the page can process: an object with its counts and a format list
WellFormed(data) ==
    /\ data # null
    /\ data.view_count # None
    /\ data.like_count # None
    /\ data.formats # None

-----------------------------------------------------------------------------
(* C1 *)

\* C1: in every reachable state at most one of the loading, preview, error and success
\* regions is visible, and the download-options region is visible only while the
\* preview region is visible.
C1_RegionsExclusive ==
    /\ Cardinality({ r \in StateRegions : Visible(app, r) }) <= 1
    /\ Visible(app, "downloadSection") => Visible(app, "previewSection")

\* the download-options region is shown on top of the preview region
C1_Witness ==
    /\ Visible(app, "downloadSection")
    /\ Visible(app, "previewSection")
    /\ app.elements.errorMessage.textContent # ""

-----------------------------------------------------------------------------
(* C2 *)

\* C2: when a successful preview response with a non-empty format list has been
\* processed, both the preview region and the download-options region are visible.
C2_PreviewShowsDownloadReady ==
    [][\A request \in net, data \in PreviewBodies :
          ( /\ JsonResolves(request, data)
            /\ IsPreview(request)
            /\ request.response.ok
            /\ WellFormed(data)
            /\ Len(data.formats[1]) >= 1 )
          => ( /\ Visible(app', "previewSection")
               /\ Visible(app', "downloadSection") )]_vars

-----------------------------------------------------------------------------
(* C3 *)

-----------------------------------------------------------------------------
(* C4 *)

\* C4: a preview attempt that ends in the Error state (local validation failure,
\* network or API failure, failure while processing the response) leaves the stored
\* VideoPreview, selectedQuality and selectedFormatId as they were.
C4_FailedPreviewKeepsState ==
    [][( \/ HandlePreviewClick /\ Visible(app', "errorSection")
         \/ \E request \in net :
               IsPreview(request) /\ SettlesNow(request) /\ Visible(app', "errorSection") )
       => ( /\ app'.currentVideoInfo = app.currentVideoInfo
            /\ app'.selectedQuality = app.selectedQuality
            /\ app'.selectedFormatId = app.selectedFormatId )]_vars

-----------------------------------------------------------------------------
(* C5 *)

\* C5: when a successful preview response replaces the stored VideoPreview, the
\* selection afterwards is that of a format of the new VideoPreview, or none when the
\* new format list is empty.
C5_NewPreviewReplacesSelection ==
    [][\A request \in net, data \in PreviewBodies :
          ( /\ JsonResolves(request, data)
            /\ IsPreview(request)
            /\ request.response.ok
            /\ WellFormed(data) )
          => LET formats == data.formats[1]
             IN  /\ app'.currentVideoInfo = data
                 /\ IF formats = <<>>
                    THEN app'.selectedQuality = None /\ app'.selectedFormatId = None
                    ELSE \E i \in DOMAIN formats :
                            /\ app'.selectedQuality = Some(formats[i].quality)
                            /\ app'.selectedFormatId = Some(formats[i].format_id)]_vars

-----------------------------------------------------------------------------
(* C6 *)

\* C6: no preview or download request is ever issued for a URL that validateURL
\* rejects.
C6_NoRequestForRejectedUrl ==
    \A request \in net :
        (IsPreview(request) \/ IsDownload(request)) => validateYouTubeURL(request.body.url)

-----------------------------------------------------------------------------
(* C7 *)

\* C7: submitting the URL form with an empty (after trimming) or unrecognized URL
\* leaves exactly the error region visible and issues no request; submitting a
\* recognized URL leaves exactly the loading region visible and issues exactly one
\* preview request, which carries the trimmed URL.
C7_SubmitValidatesLocally ==
    [][HandlePreviewClick
       => LET url == trim(app.elements.videoUrl.value)
          IN  IF url = "" \/ ~validateYouTubeURL(url)
              THEN /\ OnlyVisible(app', "errorSection")
                   /\ net' = net
                   /\ issued' = issued
              ELSE /\ OnlyVisible(app', "loadingSection")
                   /\ issued' = issued + 1
                   /\ \E request \in net' :
                         /\ net' = net \cup {request}
                         /\ request \notin net
                         /\ IsPreview(request)
                         /\ request.method = "POST"
                         /\ request.body = [url |-> url]
                         /\ request.phase = "fetch"]_vars

\* a recognized URL typed with blanks around it has been submitted: the page is
\* loading and the request carries the URL without the blanks
C7_Witness ==
    /\ app.elements.videoUrl.value = " https://youtu.be/a1 "
    /\ OnlyVisible(app, "loadingSection")
    /\ \E request \in net :
          /\ IsPreview(request)
          /\ request.body.url = "https://youtu.be/a1"
          /\ request.phase = "fetch"

-----------------------------------------------------------------------------
(* C8 *)

\* C8: confirming a download while no VideoPreview is stored or no quality is selected
\* leaves exactly the error region visible, with the message "Please select a video
\* quality first", and issues no request.
C8_ConfirmWithoutSelectionRejected ==
    [][( /\ HandleDownloadClick \/ CallHandleDownloadClick
         /\ app.currentVideoInfo = null \/ app.selectedQuality = None )
       => ( /\ OnlyVisible(app', "errorSection")
            /\ app'.elements.errorMessage.textContent = "Please select a video quality first"
            /\ net' = net
            /\ issued' = issued )]_vars

\* download has been confirmed with nothing stored: the rejection is on the page
C8_Witness ==
    /\ OnlyVisible(app, "errorSection")
    /\ app.elements.errorMessage.textContent = "Please select a video quality first"
    /\ app.currentVideoInfo = null

-----------------------------------------------------------------------------
(* C9 *)

\* C9: when a download call completes, a response with success = true leaves exactly
\* the success region visible and the download link built from the response's
\* filename; a response with success = false, or a call that throws, leaves exactly
\* the error region visible.
C9_DownloadOutcomeRegions ==
    [][\A request \in net :
          (IsDownload(request) /\ SettlesNow(request))
          => IF \E data \in DownloadBodies : JsonResolves(request, data) /\ data.success
             THEN /\ OnlyVisible(app', "successSection")
                  /\ \E data \in DownloadBodies :
                        /\ JsonResolves(request, data)
                        /\ app'.elements.downloadLink.href = getDownloadURL(data.filename)
                        /\ app'.elements.downloadLink.download = data.filename[1]
             ELSE OnlyVisible(app', "errorSection")]_vars

\* a download has succeeded: the success region alone is visible, with the link to
\* the file
C9_Witness ==
    /\ OnlyVisible(app, "successSection")
    /\ app.elements.downloadLink.href
         = "https://nb-video-downloader-backend-production.up.railway.app//downloads/my%20video.mp4"
    /\ app.elements.downloadLink.download = "my video.mp4"

-----------------------------------------------------------------------------
(* C10 *)

DownloadInFlight == \E request \in net : IsDownload(request)

\* C10: the download button is disabled and shows the spinner exactly while a download
\* call is in flight; once the call has completed, whatever its outcome, the button is
\* enabled and carries the label it had before the call.
C10_DownloadBtnBusyWhileInFlight ==
    /\ app.elements.downloadBtn.disabled <=> DownloadInFlight
    /\ app.elements.downloadBtn.innerHTML
         = IF DownloadInFlight THEN SpinnerHTML ELSE DownloadBtnLabel

\* a download call has failed and the button is back as it was
C10_Witness ==
    /\ ~DownloadInFlight
    /\ app.elements.errorMessage.textContent = "Download failed"
    /\ Visible(app, "errorSection")
    /\ ~app.elements.downloadBtn.disabled
    /\ app.elements.downloadBtn.innerHTML = DownloadBtnLabel

-----------------------------------------------------------------------------
(* C11 *)

\* C11: a click on a quality button leaves exactly that button marked selected; a click
\* on the button that is already the selected one leaves the selection, the marks, the
\* summary and the visible regions as they were.
C11_SelectionMarksLastPicked ==
    [][\A index \in DOMAIN app.elements.qualityButtons.children :
          HandleQualityClick(index)
          => LET before == app.elements.qualityButtons.children
                 after == app'.elements.qualityButtons.children
             IN  /\ DOMAIN after = DOMAIN before
                 /\ \A j \in DOMAIN after : after[j].selected <=> (j = index)
                 /\ app'.selectedFormatId = Some(before[index].formatId)
                 /\ before[index].selected
                    => /\ after = before
                       /\ app'.selectedQuality = app.selectedQuality
                       /\ app'.selectedFormatId = app.selectedFormatId
                       /\ app'.elements.selectedQualitySpan = app.elements.selectedQualitySpan
                       /\ app'.elements.fileSizeSpan = app.elements.fileSizeSpan
                       /\ \A r \in Regions : Visible(app', r) <=> Visible(app, r)]_vars

-----------------------------------------------------------------------------
(* C12 *)

\* the error makeRequest throws when its timeout fires
TimeoutError == Error("Error", "Request timeout - please try again")

\* C12: the message shown for a failed preview or download call -- connection failure,
\* timeout, answer that is not 2xx, 2xx download answer with success = false -- is
\* handleError applied to the failure, never the message of the server as it came.
C12_FailuresAreHumanized ==
    [][\A request \in net :
          (IsPreview(request) \/ IsDownload(request))
          => LET shown == app'.elements.errorMessage.textContent
             IN  /\ FetchRejects(request) => shown = handleError(FetchFailed)
                 /\ TimeoutAborts(request) => shown = handleError(TimeoutError)
                 /\ \A data \in ErrorBodies :
                       (JsonResolves(request, data) /\ ~request.response.ok)
                       => shown = handleError(httpError(request.response, data))
                 /\ \A data \in DownloadBodies :
                       ( /\ JsonResolves(request, data)
                         /\ IsDownload(request)
                         /\ request.response.ok
                         /\ ~data.success )
                       => shown = handleError(Error("Error",
                                                    OrElse(data.message, "Download failed")))]_vars

-----------------------------------------------------------------------------
(* C13 *)

\* C13: retry hides every region and issues no request; a request is issued only by a
\* submit (one preview request) or by a confirm (one download request), the health
\* check of the start aside; no other step, the failure of a call included, issues one.
C13_RequestsOnlyFromUserActions ==
    [][/\ HandleRetryClick
          => /\ \A r \in Regions : ~Visible(app', r)
             /\ net' = net
             /\ issued' = issued
       /\ \A request \in net' : request.endpoint = endpoints.health => request.id = 1
       /\ (issued' # issued \/ \E request \in net' : \A old \in net : old.id # request.id)
          => /\ issued' = issued + 1
             /\ \E request \in net' :
                   /\ request.id = issued'
                   /\ request.phase = "fetch"
                   /\ net' = net \cup {request}
                   /\ \/ HandlePreviewClick /\ IsPreview(request)
                      \/ HandleDownloadClick /\ IsDownload(request)]_vars

\* a preview call has failed and the user has clicked retry: nothing is visible, the
\* message of the failure is still in the hidden error region, no call is in flight
C13_Witness ==
    /\ \A r \in Regions : ~Visible(app, r)
    /\ app.elements.errorMessage.textContent = handleError(FetchFailed)
    /\ app.elements.videoUrl.value # ""
    /\ issued = 2
    /\ net = {}

-----------------------------------------------------------------------------
(* C14 *)

\* C14: reset, from any state, sets the stored VideoPreview, selectedQuality and
\* selectedFormatId to none, empties the URL field and hides the loading, preview,
\* error, success and download-options regions.
C14_ResetClearsEverything ==
    [][Reset
       => /\ app'.currentVideoInfo = null
          /\ app'.selectedQuality = None
          /\ app'.selectedFormatId = None
          /\ app'.elements.videoUrl.value = ""
          /\ \A r \in Regions : ~Visible(app', r)]_vars

\* reset after a preview with a selection: the buttons of the preview are still in the
\* hidden region, nothing is stored or selected
C14_Witness ==
    /\ app.currentVideoInfo = null
    /\ app.selectedQuality = None
    /\ app.selectedFormatId = None
    /\ app.elements.videoUrl.value = ""
    /\ \A r \in Regions : ~Visible(app, r)
    /\ Len(app.elements.qualityButtons.children) = 2
    /\ app.elements.selectedQualitySpan.textContent = "Quality: 720p"

-----------------------------------------------------------------------------
(* C15 *)

\* C15: a call that has not completed (answer received and body decoded) is still
\* under its timeout; when the timeout fires the call fails with the timeout error,
\* which is not the error of a failed connection, and the call is over.
C15_TimeoutCoversWholeCall ==
    /\ [](\A request \in net : request.timer)
    /\ [][\A request \in net :
             TimeoutAborts(request)
             => /\ makeRequestCatch(Aborted) = Throw(TimeoutError)
                /\ TimeoutError # FetchFailed
                /\ handleError(TimeoutError) # handleError(FetchFailed)
                /\ \A other \in net' : other.id # request.id]_vars

-----------------------------------------------------------------------------
(* C16 *)

\* the URL begins with one of the four recognized shapes: http or https, www. or not
\* (the short link without), host and path as written, then a non-empty id
Recognized(parts) ==
    /\ parts.scheme \in {"http://", "https://"}
    /\ \/ parts.hostPath \in {"youtube.com/watch?v=", "youtube.com/embed/", "youtube.com/v/"}
       \/ parts.hostPath = "youtu.be/" /\ parts.www = ""
    /\ parts.id # ""

\* C16: validateYouTubeURL is true exactly for the strings that, blanks around them
\* aside, begin with one of the four recognized shapes, and false for every other
\* string, for the empty string and for a value that is no string.
C16_ValidateRecognizesShapes ==
    evaluated.fn = "validateYouTubeURL"
    => ( evaluated.result
         <=> ( /\ evaluated.input.parts # None
               /\ Recognized(evaluated.input.parts[1]) ) )

\* a watch URL with www., blanks before it and a parameter after the id is accepted
C16_Witness ==
    /\ evaluated.fn = "validateYouTubeURL"
    /\ evaluated.input.arg = String(" https://www.youtube.com/watch?v=abc123&t=5")
    /\ evaluated.result

-----------------------------------------------------------------------------
(* C17 *)

\* C17: extractVideoID gives none for every URL validateYouTubeURL rejects, and for an
\* accepted URL the id of its shape, without what follows the id.
C17_ExtractGivesIdSegment ==
    evaluated.fn = "extractVideoID"
    => evaluated.result
         = IF evaluated.input.parts # None /\ Recognized(evaluated.input.parts[1])
           THEN Some(evaluated.input.parts[1].id)
           ELSE None

-----------------------------------------------------------------------------
(* C18 *)

\* text is num / unit written with one decimal, then the suffix: the decimal number
\* whose distance to num / unit is at most half a tenth
ScaledBy(text, num, unit, suffix) ==
    LET tenth == unit \div 10
    IN  \E tenths \in (num \div tenth)..(num \div tenth + 1) :
           /\ 2 * (num - tenths * tenth) <= tenth
           /\ 2 * (tenths * tenth - num) <= tenth
           /\ text = ToString(tenths \div 10) \o "." \o ToString(tenths % 10) \o suffix

\* C18: formatNumber(n) is the plain integer below 1000, n/1e3 with one decimal and K
\* from 1e3 on, n/1e6 with one decimal and M from 1e6 on, n/1e9 with one decimal and B
\* from 1e9 on; 999 gives "999", 1500 gives "1.5K", 2300000 gives "2.3M".
C18_FormatNumberScales ==
    evaluated.fn = "formatNumber"
    => LET n == evaluated.input
           text == evaluated.result.value
       IN  /\ evaluated.result.kind = "return"
           /\ n < 1000 => text = ToString(n)
           /\ (1000 <= n /\ n < 1000000) => ScaledBy(text, n, 1000, "K")
           /\ (1000000 <= n /\ n < 1000000000) => ScaledBy(text, n, 1000000, "M")
           /\ 1000000000 <= n => ScaledBy(text, n, 1000000000, "B")
           /\ n = 999 => text = "999"
           /\ n = 1500 => text = "1.5K"
           /\ n = 2300000 => text = "2.3M"

\* a count just below a million is scaled by a thousand, and rounds to "1000.0K"
C18_Witness ==
    /\ evaluated.fn = "formatNumber"
    /\ evaluated.input = 999960
    /\ evaluated.result = Return("1000.0K")

-----------------------------------------------------------------------------
(* C19 *)

TimedOutSentence == "Request timed out. Please check your connection and try again."
NoConnectionSentence ==
    "Unable to connect to the server. Please check your internet connection."

\* the substring rules in their order: what the message includes, the sentence shown
ErrorRules ==
    << <<"timeout", TimedOutSentence>>,
       <<"fetch", NoConnectionSentence>>,
       <<"Invalid YouTube URL", "Please enter a valid YouTube video URL.">>,
       <<"Video unavailable",
         "This video is not available for download. It may be private, deleted, or restricted.">>,
       <<"Age restricted", "This video is age-restricted and cannot be downloaded.">>,
       <<"Copyright", "This video is protected by copyright and cannot be downloaded.">>,
       <<"HTTP 429", "Too many requests. Please wait a moment before trying again.">>,
       <<"HTTP 500", "Server error. Please try again later.">>,
       <<"HTTP 400", "Invalid request. Please check the video URL and try again.">> >>

\* C19: handleError gives the sentence of the first substring rule its message matches,
\* and "Error: <message>" when none matches; a timeout and a connection failure get two
\* different sentences, and an answer that is not 2xx is shown neither as a timeout nor
\* as a connection failure.
C19_HandleErrorByFirstRule ==
    evaluated.fn = "handleError"
    => LET failure == evaluated.input
           message == failure.error.message
           matching == { i \in DOMAIN ErrorRules : includes(message, ErrorRules[i][1]) }
       IN  /\ matching = {} => evaluated.result = "Error: " \o message
           /\ \A i \in matching :
                 (\A j \in matching : i <= j) => evaluated.result = ErrorRules[i][2]
           /\ failure.kind = "timeout" => evaluated.result = TimedOutSentence
           /\ failure.kind = "connection" => evaluated.result # TimedOutSentence
           /\ failure.kind = "api"
              => evaluated.result \notin {TimedOutSentence, NoConnectionSentence}

-----------------------------------------------------------------------------
(* C20 *)

\* C20: the response to a preview request that is not the one issued last, arriving
\* after the response to the one issued last, changes nothing: the stored VideoPreview,
\* the selection and the visible regions stay those the latest request produced.
C20_SupersededPreviewDiscarded ==
    [][\A request \in net :
          ( /\ IsPreview(request)
            /\ SettlesNow(request)
            /\ request.id < latestPreview
            /\ \A other \in net : IsPreview(other) => other.id <= request.id )
          => ( /\ app'.currentVideoInfo = app.currentVideoInfo
               /\ app'.selectedQuality = app.selectedQuality
               /\ app'.selectedFormatId = app.selectedFormatId
               /\ \A r \in Regions : Visible(app', r) <=> Visible(app, r) )]_vars

-----------------------------------------------------------------------------
(* C21 *)

\* the answer to a preview request is processed in this step, and to the end: the
\* preview region is shown
PreviewSucceeds ==
    \E request \in net, data \in PreviewBodies :
        /\ JsonResolves(request, data)
        /\ IsPreview(request)
        /\ request.response.ok
        /\ Visible(app', "previewSection")

\* C21: the stored VideoPreview changes only when a preview response is processed
\* successfully or on reset; selectedQuality and selectedFormatId change only on a
\* quality selection (a click, or the auto-select of a successful preview) or on reset.
C21_StoredStateChangesOnlyByOwners ==
    [][/\ app'.currentVideoInfo # app.currentVideoInfo
          => (Reset \/ PreviewSucceeds)
       /\ ( \/ app'.selectedQuality # app.selectedQuality
            \/ app'.selectedFormatId # app.selectedFormatId )
          => \/ Reset
             \/ PreviewSucceeds
             \/ \E index \in DOMAIN app.elements.qualityButtons.children :
                   HandleQualityClick(index)]_vars

-----------------------------------------------------------------------------
(* C22 *)

\* C22: the health check of the start has no effect on the page, whatever its outcome
\* and whenever it arrives: no step of the health request changes anything of the app,
\* regions, stored VideoPreview, selection and error message included.
C22_HealthCheckHasNoEffect ==
    [][\A request \in net :
          (request.endpoint = endpoints.health /\ request \notin net') => app' = app]_vars

\* the health check is over, a preview is being loaded and nothing but the loading
\* region is on the page
C22_Witness ==
    /\ \A request \in net : request.endpoint # endpoints.health
    /\ \E request \in net : IsPreview(request)
    /\ OnlyVisible(app, "loadingSection")
    /\ app.elements.errorMessage.textContent = ""

-----------------------------------------------------------------------------
(* C23 *)

\* C23: a download request carries the URL whose preview produced the stored
\* VideoPreview, and the quality and format id of one format of that VideoPreview.
C23_DownloadBelongsToPreview ==
    [][\A request \in net' :
          (IsDownload(request) /\ issued' # issued /\ request.id = issued')
          => /\ previewedUrl # None
             /\ request.body.url = previewedUrl[1]
             /\ app.currentVideoInfo # null
             /\ app.currentVideoInfo.formats # None
             /\ \E i \in DOMAIN app.currentVideoInfo.formats[1] :
                   LET format == app.currentVideoInfo.formats[1][i]
                   IN  /\ request.body.quality = Some(format.quality)
                       /\ request.body.format_id = Some(format.format_id)]_vars

-----------------------------------------------------------------------------
(* C24 *)

\* C24: from a reset until the next action of the user nothing is stored, nothing is
\* selected and no region is visible, whatever arrives from calls that were in flight.
C24_ResetStaysIdle ==
    untouched
    => /\ app.currentVideoInfo = null
       /\ app.selectedQuality = None
       /\ app.selectedFormatId = None
       /\ \A r \in Regions : ~Visible(app, r)

-----------------------------------------------------------------------------
(* C25 *)

\* C25: while the download-options region is visible a VideoPreview is stored, the
\* quality buttons are its formats, selectedQuality and selectedFormatId are those of
\* one of them, and a click on the download button is not rejected for want of a
\* selection.
C25_DownloadOptionsHaveSelection ==
    Visible(app, "downloadSection")
    => /\ app.currentVideoInfo # null
       /\ app.currentVideoInfo.formats # None
       /\ LET formats == app.currentVideoInfo.formats[1]
              children == app.elements.qualityButtons.children
          IN  /\ Len(children) = Len(formats)
              /\ \A i \in DOMAIN formats :
                    /\ children[i].quality = formats[i].quality
                    /\ children[i].formatId = formats[i].format_id
              /\ \E i \in DOMAIN children :
                    /\ app.selectedQuality = Some(children[i].quality)
                    /\ app.selectedFormatId = Some(children[i].formatId)
       /\ handleDownloadClick(app).call # None

\* the second quality has been picked, the download options are on the page
C25_Witness ==
    /\ Visible(app, "downloadSection")
    /\ app.selectedQuality = Some("720p")
    /\ app.selectedFormatId = Some("f2")
    /\ ~app.elements.downloadBtn.disabled

-----------------------------------------------------------------------------
(* C26 *)

-----------------------------------------------------------------------------
\* C27: the Loading state is never permanent. Whenever the loading region is
\* visible, a later state has it hidden, assuming only that a running timeout
\* timer fires in the end: the backend may answer, fail, send the headers and then
\* stall, or never answer, and the user may do nothing more.
C27_LoadingNeverPermanent ==
    Visible(app, "loadingSection") ~> ~Visible(app, "loadingSection")

\* C28: for a count of at least 1000 that formatNumber prints with K or M, the
\* number before the suffix is between 1.0 and 999.9, with one decimal: never
\* "1000.0K" or "1000.0M" just below the next threshold.
C28_ScaledNumberBelowThousand ==
    (/\ evaluated.fn = "formatNumber"
     /\ 1000 <= evaluated.input
     /\ evaluated.input < 1000000000)
    => /\ evaluated.result.kind = "return"
       /\ \E tenths \in 10..9999 : \E suffix \in {"K", "M"} :
             evaluated.result.value =
                ToString(tenths \div 10) \o "." \o ToString(tenths % 10) \o suffix

====
